---- MODULE Spec2Model ----
(***************************************************************************)
(* A model of the movie recommender: the load pipeline of movies.py (the   *)
(* cleaned table, the TF-IDF vectors, the cosine matrix, the title series  *)
(* and the actor list), its query functions, and the /recommend and        *)
(* /search routes of app.py.                                               *)
(*                                                                         *)
(* Text is modelled by TLA+ strings (Len, SubSeq and \o act on them).      *)
(* Rows are numbered from 0 as in pandas; row r of a table t is t[r + 1].  *)
(***************************************************************************)
EXTENDS Integers, Sequences, FiniteSets, TLC

\* ------------------------------------------------------------------ text

Ch(s, i) == SubSeq(s, i, i)

Rest(s, k) == SubSeq(s, k + 1, Len(s))

UpperCase == "ABCDEFGHIJKLMNOPQRSTUVWXYZ"

LowerCase == "abcdefghijklmnopqrstuvwxyz"

DigitChars == "0123456789"

\* The characters of a string, as a set.
CharsOf(alphabet) == { Ch(alphabet, i) : i \in 1..Len(alphabet) }

\* The map that takes the k-th character of from to the k-th of to.
RECURSIVE CharMap(_, _)
CharMap(from, to) ==
    IF from = "" THEN <<>>
    ELSE (Ch(from, 1) :> Ch(to, 1)) @@ CharMap(Rest(from, 1), Rest(to, 1))

UpperSet == CharsOf(UpperCase)

LowerSet == CharsOf(LowerCase)

DigitSet == CharsOf(DigitChars)

ToLower == CharMap(UpperCase, LowerCase)

ToUpper == CharMap(LowerCase, UpperCase)

LowerCh(c) == IF c \in UpperSet THEN ToLower[c] ELSE c

UpperCh(c) == IF c \in LowerSet THEN ToUpper[c] ELSE c

IsLetter(c) == c \in UpperSet \/ c \in LowerSet

\* \w of the regular expressions: letters, digits and the underscore.
WordSet == UpperSet \cup LowerSet \cup DigitSet \cup {"_"}

IsWordCh(c) == c \in WordSet

\* \s of the regular expressions; the texts of the model hold blanks only.
SpaceSet == {" "}

IsSpace(c) == c \in SpaceSet

RECURSIVE Lower(_)
Lower(s) == IF s = "" THEN "" ELSE LowerCh(Ch(s, 1)) \o Lower(Rest(s, 1))

RECURSIVE LStrip(_)
LStrip(s) == IF s # "" /\ IsSpace(Ch(s, 1)) THEN LStrip(Rest(s, 1)) ELSE s

RECURSIVE RStrip(_)
RStrip(s) ==
    IF s # "" /\ IsSpace(Ch(s, Len(s)))
    THEN RStrip(SubSeq(s, 1, Len(s) - 1))
    ELSE s

Strip(s) == RStrip(LStrip(s))

\* str.title(): a letter is upper-cased after a non-letter, lower-cased after a letter.
RECURSIVE TitleFrom(_, _)
TitleFrom(s, afterLetter) ==
    IF s = "" THEN ""
    ELSE LET c == Ch(s, 1) IN
         (IF afterLetter THEN LowerCh(c) ELSE UpperCh(c))
             \o TitleFrom(Rest(s, 1), IsLetter(c))

Title(s) == TitleFrom(s, FALSE)

\* The length of the longest prefix of s made of characters of class.
RECURSIVE RunLen(_, _)
RunLen(s, class) ==
    IF s # "" /\ Ch(s, 1) \in class THEN 1 + RunLen(Rest(s, 1), class) ELSE 0

\* re.sub of a run pattern, [class]{minLen,}, by rep.
RECURSIVE ReSubRuns(_, _, _, _)
ReSubRuns(s, class, minLen, rep) ==
    IF s = "" THEN ""
    ELSE LET k == RunLen(s, class) IN
         IF k >= minLen THEN rep \o ReSubRuns(Rest(s, k), class, minLen, rep)
         ELSE IF k > 0 THEN SubSeq(s, 1, k) \o ReSubRuns(Rest(s, k), class, minLen, rep)
         ELSE Ch(s, 1) \o ReSubRuns(Rest(s, 1), class, minLen, rep)

\* str.replace(old, new), old not empty.
RECURSIVE Replace(_, _, _)
Replace(s, old, new) ==
    IF Len(s) < Len(old) THEN s
    ELSE IF SubSeq(s, 1, Len(old)) = old
         THEN new \o Replace(Rest(s, Len(old)), old, new)
         ELSE Ch(s, 1) \o Replace(Rest(s, 1), old, new)

\* str.split(sep) for a one-character separator.
RECURSIVE Split(_, _)
Split(s, sep) ==
    IF \E i \in 1..Len(s) : Ch(s, i) = sep
    THEN LET i == CHOOSE i \in 1..Len(s) :
                     Ch(s, i) = sep /\ \A j \in 1..(i - 1) : Ch(s, j) # sep
         IN <<SubSeq(s, 1, i - 1)>> \o Split(Rest(s, i), sep)
    ELSE <<s>>

RECURSIVE Join(_, _)
Join(parts, sep) ==
    IF parts = <<>> THEN ""
    ELSE IF Len(parts) = 1 THEN parts[1]
    ELSE parts[1] \o sep \o Join(Tail(parts), sep)

\* q in t of Python: q is a literal substring of t.
Contains(t, q) ==
    \E i \in 1..(Len(t) - Len(q) + 1) : SubSeq(t, i, i + Len(q) - 1) = q

StartsWith(t, q) == Len(q) <= Len(t) /\ SubSeq(t, 1, Len(q)) = q

\* Head of a sequence: its first n entries (n >= 0).
Take(seq, n) == SubSeq(seq, 1, IF n < Len(seq) THEN n ELSE Len(seq))

\* seq[:n] of Python and DataFrame.head(n) of pandas: a negative n drops the
\* last -n entries.
PyHead(seq, n) ==
    IF n >= 0 THEN Take(seq, n)
    ELSE Take(seq, IF Len(seq) + n > 0 THEN Len(seq) + n ELSE 0)

RECURSIVE Reverse(_)
Reverse(seq) ==
    IF seq = <<>> THEN <<>> ELSE Reverse(Tail(seq)) \o <<Head(seq)>>

\* ------------------------------------------------------- movies.py helpers

\* The characters [;,/] of the delimiter pattern.
Delimiters == {";", ",", "/"}

nz(s) ==
    LET t == Strip(s) IN
    IF Lower(t) \in {"nan", "none", "null"} THEN "" ELSE t

split_multi(s) ==
    LET s0 == nz(s)
        s1 == ReSubRuns(s0, Delimiters, 1, "|")
        s2 == ReSubRuns(s1, {"|"}, 2, "|")
    IN IF s0 = "" THEN <<>>
       ELSE LET parts == Split(s2, "|")
                kept == SelectSeq(parts, LAMBDA p : Strip(p) # "")
            IN [i \in 1..Len(kept) |-> Strip(kept[i])]

top2_actors_from_string(s) ==
    LET top2 == Take(split_multi(s), 2)
    IN [i \in 1..Len(top2) |-> Title(Replace(top2[i], "_", " "))]

normalize_title(t) == Strip(ReSubRuns(Lower(nz(t)), SpaceSet, 1, " "))

pretty_genres(g) ==
    LET g0 == nz(g)
        g2 == ReSubRuns(ReSubRuns(g0, Delimiters, 1, "|"), {"|"}, 2, "|")
        parts == Split(g2, "|")
        kept == SelectSeq(parts, LAMBDA p : Strip(p) # "")
    IN IF g0 = "" THEN ""
       ELSE Join([i \in 1..Len(kept) |-> Strip(kept[i])], " | ")

\* ------------------------------------------------------ the loaded table

\* One row of movies.csv, read with dtype=str and keep_default_na=False:
\* every cell is text.
RawRow(title, rating, genres, actors, story, date) ==
    [title_x |-> title, imdb_rating |-> rating, genres |-> genres,
     actors |-> actors, story |-> story, release_date |-> date]

\* The rows a movies.csv of the model is made of.
RawRows ==
    { RawRow("Up", "8.5", "War", "Tom;Meg", "sky war", "2009"),
      RawRow("UP", "8.5", "War/Spy", "Meg", "sky", ""),
      RawRow("Up  2", "7.0", "Spy", "Bo,Tom", "spy sky", "2011"),
      RawRow("Drama", "nan", "", "", "the", ""),
      RawRow(" None ", "6.0", "War", "Bo", "war", ""),
      RawRow("Ox", "", "none", "", " ", "") }

\* The most rows a movies.csv of the model holds.
MaxRows == 3

RawTables == UNION { [1..n -> RawRows] : n \in 1..MaxRows }

\* DataFrame.drop_duplicates(subset=["title_x"]): the first row of each title stays.
RECURSIVE DropDuplicateTitles(_, _)
DropDuplicateTitles(rows, seen) ==
    IF rows = <<>> THEN <<>>
    ELSE IF Head(rows).title_x \in seen
         THEN DropDuplicateTitles(Tail(rows), seen)
         ELSE <<Head(rows)>>
                  \o DropDuplicateTitles(Tail(rows), seen \cup {Head(rows).title_x})

\* movies.py, lines 51 to 53.
CleanTitles(raw) ==
    LET t1 == [i \in 1..Len(raw) |-> [raw[i] EXCEPT !.title_x = nz(@)]]
        t2 == SelectSeq(t1, LAMBDA r : r.title_x # "")
    IN DropDuplicateTitles(t2, {})

\* movies.py, lines 56 to 68 and 77: the cleaned and the derived columns of a row.
Engineer(r) ==
    LET story == nz(r.story)
        genres == nz(r.genres)
        actors == nz(r.actors)
    IN [title_x |-> r.title_x,
        imdb_rating |-> r.imdb_rating,
        story |-> story,
        genres |-> genres,
        release_date |-> nz(r.release_date),
        actors |-> actors,
        actors_top2 |-> top2_actors_from_string(actors),
        genres_pretty |-> pretty_genres(genres),
        combined_text |-> nz(story \o " " \o genres \o " " \o actors),
        title_norm |-> normalize_title(r.title_x)]

\* movies.py, lines 51 to 69 and 77: movies_df as the queries see it.
LoadTable(raw) ==
    LET t == CleanTitles(raw)
        e == [i \in 1..Len(t) |-> Engineer(t[i])]
    IN SelectSeq(e, LAMBDA r : r.combined_text # "")

Rows(df) == 0..(Len(df) - 1)

\* ------------------------------------------------- vectors and similarity

\* The words of stop_words="english" that occur in the texts of the model.
StopWords == {"the", "a", "an", "and", "of", "to", "in", "is", "it", "up", "top"}

\* The analyzer of TfidfVectorizer: lower-case, the tokens of \b\w\w+\b (runs of
\* two or more word characters), the stop words left out.
RECURSIVE WordRuns(_)
WordRuns(s) ==
    IF s = "" THEN <<>>
    ELSE LET k == RunLen(s, WordSet) IN
         IF k = 0 THEN WordRuns(Rest(s, 1))
         ELSE (IF k >= 2 THEN <<SubSeq(s, 1, k)>> ELSE <<>>) \o WordRuns(Rest(s, k))

Analyze(text) == SelectSeq(WordRuns(Lower(text)), LAMBDA w : w \notin StopWords)

Range(seq) == { seq[i] : i \in 1..Len(seq) }

\* The analyzed documents of the corpus, movies_df["combined_text"].
RECURSIVE Corpus(_)
Corpus(df) ==
    IF df = <<>> THEN <<>>
    ELSE <<Analyze(Head(df).combined_text)>> \o Corpus(Tail(df))

Vocabulary(docs) == UNION { Range(docs[i]) : i \in 1..Len(docs) }

TermCount(doc, w) == Cardinality({ k \in 1..Len(doc) : doc[k] = w })

DocCount(docs, w) == Cardinality({ i \in 1..Len(docs) : w \in Range(docs[i]) })

\* The smoothed idf of TfidfVectorizer, ln((1 + n) / (1 + df)) + 1, in tenths.
Idf10(n, d) ==
    LET q == <<1 + n, 1 + d>> IN
    CASE q[1] = q[2] -> 10
      [] q \in {<<3, 2>>, <<6, 4>>} -> 14
      [] q \in {<<4, 2>>, <<6, 3>>} -> 17
      [] q = <<4, 3>> -> 13
      [] q = <<5, 2>> -> 19
      [] q = <<5, 3>> -> 15
      [] q = <<5, 4>> -> 12
      [] q = <<6, 2>> -> 21
      [] q = <<6, 5>> -> 12

\* The idf of each word of S.
RECURSIVE IdfOver(_, _)
IdfOver(docs, S) ==
    IF S = {} THEN <<>>
    ELSE LET w == CHOOSE w \in S : TRUE IN
         (w :> Idf10(Len(docs), DocCount(docs, w))) @@ IdfOver(docs, S \ {w})

\* The vector of a document: the weight, tf * idf, of each word of S.
RECURSIVE VectorOver(_, _, _)
VectorOver(doc, idf, S) ==
    IF S = {} THEN <<>>
    ELSE LET w == CHOOSE w \in S : TRUE IN
         (w :> TermCount(doc, w) * idf[w]) @@ VectorOver(doc, idf, S \ {w})

RECURSIVE VectorsOf(_, _, _)
VectorsOf(rest, idf, S) ==
    IF rest = <<>> THEN <<>>
    ELSE <<VectorOver(Head(rest), idf, S)>> \o VectorsOf(Tail(rest), idf, S)

\* tfidf.fit_transform, before the normalisation: per document, the weight of
\* each word of the vocabulary.
TfidfMatrix(docs) ==
    VectorsOf(docs, IdfOver(docs, Vocabulary(docs)), Vocabulary(docs))

\* The dot product of two vectors over the words of S.
RECURSIVE DotOver(_, _, _)
DotOver(u, v, S) ==
    IF S = {} THEN 0
    ELSE LET w == CHOOSE w \in S : TRUE IN u[w] * v[w] + DotOver(u, v, S \ {w})

Dot(u, v) == DotOver(u, v, DOMAIN u)

\* The integer square root, by bisection.
RECURSIVE ISqrtIn(_, _, _)
ISqrtIn(n, lo, hi) ==
    IF lo >= hi THEN lo
    ELSE LET mid == (lo + hi + 1) \div 2 IN
         IF mid * mid <= n THEN ISqrtIn(n, mid, hi) ELSE ISqrtIn(n, lo, mid - 1)

ISqrt(n) == ISqrtIn(n, 0, IF n < 46340 THEN n ELSE 46340)

\* The similarity 1.0 in the fixed-point scores of the model.
One == 1000

\* The cosine of two vectors. A zero vector stays zero under the
\* normalisation, so each of its scores, its own included, is 0.
Cosine(u, v) ==
    LET nu == Dot(u, u)
        nv == Dot(v, v)
    IN IF nu = 0 \/ nv = 0 THEN 0 ELSE (One * Dot(u, v)) \div ISqrt(nu * nv)

\* cosine_similarity(tfidf_matrix, tfidf_matrix).
CosineMatrix(df) ==
    LET m == TfidfMatrix(Corpus(df))
    IN [i \in 1..Len(df) |-> [j \in 1..Len(df) |-> Cosine(m[i], m[j])]]

\* fit_transform raises ValueError on an empty vocabulary: the import of
\* movies.py fails and nothing is served.
Loads(raw) == Vocabulary(Corpus(LoadTable(raw))) # {}

\* ------------------------------------------------------------ index maps

\* pd.Series(movies_df.index, index=movies_df["title_norm"]).drop_duplicates():
\* drop_duplicates compares the VALUES of the series, the row numbers, which are
\* all different, so every row keeps its entry, also under a label met before.
RECURSIVE SeriesDropDuplicates(_, _)
SeriesDropDuplicates(series, seen) ==
    IF series = <<>> THEN <<>>
    ELSE IF Head(series).value \in seen
         THEN SeriesDropDuplicates(Tail(series), seen)
         ELSE <<Head(series)>>
                  \o SeriesDropDuplicates(Tail(series), seen \cup {Head(series).value})

TitleSeries(df) ==
    SeriesDropDuplicates(
        [i \in 1..Len(df) |-> [label |-> df[i].title_norm, value |-> i - 1]], {})

\* The order of str on the characters of the model's actor names.
CharOrder == " _" \o DigitChars \o LowerCase

RECURSIVE CharRank(_, _)
CharRank(alphabet, k) ==
    IF alphabet = "" THEN <<>>
    ELSE (Ch(alphabet, 1) :> k) @@ CharRank(Rest(alphabet, 1), k + 1)

OrderOf == CharRank(CharOrder, 1)

StrLess(a, b) ==
    \E k \in 0..Len(a) :
        /\ k <= Len(b)
        /\ SubSeq(a, 1, k) = SubSeq(b, 1, k)
        /\ \/ k = Len(a) /\ k < Len(b)
           \/ /\ k < Len(a) /\ k < Len(b)
              /\ OrderOf[Ch(a, k + 1)] < OrderOf[Ch(b, k + 1)]

\* sorted(list(set)) of strings.
RECURSIVE SortedStrings(_)
SortedStrings(S) ==
    IF S = {} THEN <<>>
    ELSE LET m == CHOOSE m \in S : \A o \in S \ {m} : StrLess(m, o)
         IN <<m>> \o SortedStrings(S \ {m})

\* movies.py, lines 82 to 86.
ActorList(df) ==
    SortedStrings(UNION { { Lower(a) : a \in Range(split_multi(df[i].actors)) }
                          : i \in 1..Len(df) })

\* ---------------------------------------------------- regular expressions

\* The patterns of the model are made of literal characters, of "." (any one
\* character), of "(" (which opens a group) and of a backslash before a character
\* (that character, literally). A pattern is parsed into its atoms.
RECURSIVE Atoms(_)
Atoms(pat) ==
    IF pat = "" THEN <<>>
    ELSE LET c == Ch(pat, 1) IN
         IF c = "\\" /\ Len(pat) >= 2
         THEN <<[kind |-> "lit", ch |-> Ch(pat, 2)]>> \o Atoms(Rest(pat, 2))
         ELSE IF c = "." THEN <<[kind |-> "any", ch |-> c]>> \o Atoms(Rest(pat, 1))
         ELSE IF c = "(" THEN <<[kind |-> "open", ch |-> c]>> \o Atoms(Rest(pat, 1))
         ELSE <<[kind |-> "lit", ch |-> c]>> \o Atoms(Rest(pat, 1))

\* re.compile raises re.error on a group that is never closed.
RegexError(pat) == \E k \in 1..Len(Atoms(pat)) : Atoms(pat)[k].kind = "open"

\* re.search(pat, t) finds a match, for a pattern that compiles.
RegexSearch(t, pat) ==
    LET a == Atoms(pat) IN
    \E i \in 1..(Len(t) - Len(a) + 1) :
        \A k \in 1..Len(a) : a[k].kind = "any" \/ a[k].ch = Ch(t, i + k - 1)

\* A search that hands the query to the pattern as it is.
ReEscapeNothing(q) == q

\* re.escape: a backslash before every character that is not a word character.
RECURSIVE ReEscape(_)
ReEscape(q) ==
    IF q = "" THEN ""
    ELSE (IF IsWordCh(Ch(q, 1)) THEN Ch(q, 1) ELSE "\\" \o Ch(q, 1))
             \o ReEscape(Rest(q, 1))

\* ------------------------------------------------------------ public API

\* Where a request thread is after an exception left its route.
Raised == "raised"

\* What a call gives: the frame it returns, or the exception it raises.
Returns(frame) == [raised |-> FALSE, frame |-> frame]

Raises == [raised |-> TRUE, frame |-> <<>>]

\* movies_df.loc[mask] for a test of the rows: the rows that pass, in table order.
RowsWhere(df, Test(_)) == SelectSeq([i \in 1..Len(df) |-> i - 1], Test)

\* movies.py, lines 89 to 95.
search_titles(df, query, limit) ==
    LET q == normalize_title(query)
        mask == RowsWhere(df, LAMBDA r : RegexSearch(df[r + 1].title_norm, ReEscape(q)))
        hits == PyHead(mask, limit)
    IN IF q = "" THEN <<>>
       ELSE [k \in 1..Len(hits) |-> df[hits[k] + 1].title_x]

\* movies.py, lines 97 to 102.
search_actors(actors, query, limit) ==
    LET q == Strip(Lower(query))
        matches == SelectSeq(actors, LAMBDA a : Contains(a, q))
    IN IF q = "" THEN <<>>
       ELSE PyHead([k \in 1..Len(matches) |-> Title(matches[k])], limit)

\* idx_by_title[q]: the entries of the series under label q.
SeriesAt(series, q) == SelectSeq(series, LAMBDA e : e.label = q)

NoIndex == [tag |-> "None", row |-> 0]

\* movies.py, lines 104 to 109. int() of a series of several entries raises
\* TypeError.
best_match_index(series, movie_name) ==
    LET q == normalize_title(movie_name)
        found == SeriesAt(series, q)
    IN IF found = <<>> THEN NoIndex
       ELSE IF Len(found) = 1 THEN [tag |-> "int", row |-> found[1].value]
       ELSE [tag |-> "TypeError", row |-> 0]

\* list.sort keeps equal keys in their order: each entry goes behind the
\* entries whose score is not greater.
RECURSIVE InsertByScore(_, _)
InsertByScore(sorted, e) ==
    IF sorted = <<>> THEN <<e>>
    ELSE IF Head(sorted)[2] <= e[2]
         THEN <<Head(sorted)>> \o InsertByScore(Tail(sorted), e)
         ELSE <<e>> \o sorted

RECURSIVE SortAscending(_)
SortAscending(list) ==
    IF list = <<>> THEN <<>>
    ELSE InsertByScore(SortAscending(SubSeq(list, 1, Len(list) - 1)), list[Len(list)])

\* sorted(list, key=score, reverse=True): the list is reversed, sorted and
\* reversed again, so equal scores keep their order.
SortedReverse(list) == Reverse(SortAscending(Reverse(list)))

\* movies.py, lines 117 to 123.
RECURSIVE PickLoop(_, _, _, _)
PickLoop(sims, idx, top_n, picked) ==
    IF sims = <<>> THEN picked
    ELSE LET i == Head(sims)[1] IN
         IF i = idx THEN PickLoop(Tail(sims), idx, top_n, picked)
         ELSE IF Len(picked) + 1 >= top_n THEN Append(picked, i)
         ELSE PickLoop(Tail(sims), idx, top_n, Append(picked, i))

\* A recommend that drops the head of the sorted scores instead of the row idx.
PickedSkipFirst(sim, idx, top_n) ==
    LET sims == [k \in 1..Len(sim[idx + 1]) |-> <<k - 1, sim[idx + 1][k]>>]
        order == Tail(SortedReverse(sims))
        cut == Take(order, IF top_n > 1 THEN top_n ELSE 1)
    IN [k \in 1..Len(cut) |-> cut[k][1]]

\* movies.py, lines 115 to 123: the rows recommend picks for the row idx.
Picked(sim, idx, top_n) ==
    LET sims == [k \in 1..Len(sim[idx + 1]) |-> <<k - 1, sim[idx + 1][k]>>]
    IN PickLoop(SortedReverse(sims), idx, top_n, <<>>)

\* movies.py, lines 125 to 132 and 141 to 148: the result mapping of a row.
ResultMapping(r) ==
    LET actors == split_multi(r.actors) IN
    [title |-> r.title_x,
     rating |-> r.imdb_rating,
     actors |-> [k \in 1..Len(actors) |-> Title(actors[k])],
     genre |-> r.genres_pretty,
     release_date |-> r.release_date,
     story |-> r.story]

ResultFrame(df, rows) == [k \in 1..Len(rows) |-> ResultMapping(df[rows[k] + 1])]

\* movies.py, lines 111 to 133. An empty frame is <<>>.
recommend(df, sim, series, movie_name, top_n) ==
    LET idx == best_match_index(series, movie_name) IN
    IF idx.tag = "TypeError" THEN Raises
    ELSE IF idx.tag = "None" THEN Returns(<<>>)
    ELSE Returns(ResultFrame(df, Picked(sim, idx.row, top_n)))

\* movies.py, lines 135 to 149.
get_movies_by_actor(df, actor_name) ==
    LET name == Strip(Lower(actor_name))
        mask == RowsWhere(df, LAMBDA r :
                    \E a \in Range(split_multi(df[r + 1].actors)) :
                        Contains(Lower(a), name))
    IN ResultFrame(df, mask)

\* ------------------------------------------------------- ratings, sorting

\* pd.to_numeric(errors="coerce") on the rating texts of the model, which are
\* "d.d" or no number: the float, written as Python prints it, or NaN.
IsNumber(s) ==
    /\ Len(s) = 3
    /\ Ch(s, 1) \in DigitSet /\ Ch(s, 2) = "." /\ Ch(s, 3) \in DigitSet

NaN == "NaN"

ToNumeric(s) == IF IsNumber(s) THEN s ELSE NaN

\* The value of a float of the model, in tenths.
DigitValue == CharRank(DigitChars, 0)

Tenths(s) == 10 * DigitValue[Ch(s, 1)] + DigitValue[Ch(s, 3)]

\* sort_values(by=rating, ascending=False) of the rows `rows` whose ratings are
\* rating[r]: the numbers from the greatest down, the NaN behind them in table
\* order. The default sort is not stable, so equal ratings come in any order:
\* the set of the orders it can give.
SortOrders(rows, rating(_)) ==
    LET n == Len(rows)
        nums == { k \in 1..n : rating(rows[k]) # NaN }
        nans == SelectSeq(rows, LAMBDA r : rating(r) = NaN)
        m == Cardinality(nums)
    IN { [k \in 1..n |-> IF k <= m THEN rows[p[k]] ELSE nans[k - m]] :
           p \in { p \in [1..m -> nums] :
                     /\ \A a, b \in 1..m : a # b => p[a] # p[b]
                     /\ \A a \in 1..(m - 1) :
                          Tenths(rating(rows[p[a]])) >= Tenths(rating(rows[p[a + 1]])) } }

\* ------------------------------------------------- the extended variant

\* The parameters app.py passes.
TopN == 5

GenreLimit == 10

TopRatedLimit == 10

PartialHead == 5

SearchLimit == 10

SuggestionCap == 10

GenreTokens(r) == split_multi(r.genres)

\* get_movies_by_genre(genre, limit): the rows one of whose genre tokens holds
\* genre as a substring, at most limit of them.
get_movies_by_genre(df, genre, limit) ==
    LET mask == RowsWhere(df, LAMBDA r :
                    \E g \in Range(GenreTokens(df[r + 1])) :
                        Contains(Lower(g), Lower(genre)))
    IN ResultFrame(df, Take(mask, limit))

\* get_top_rated_movies(limit): the ratings coerced to numbers, the rows sorted by
\* them from the greatest down, the first limit of them; one result per order
\* the sort can give.
get_top_rated_movies(df, limit) ==
    { ResultFrame(df, Take(o, limit)) :
        o \in SortOrders([i \in 1..Len(df) |-> i - 1],
                         LAMBDA r : ToNumeric(df[r + 1].imdb_rating)) }

\* search_genres(query, limit): search_actors over the genre tokens.
search_genres(df, query, limit) ==
    search_actors(
        SortedStrings(UNION { { Lower(g) : g \in Range(GenreTokens(df[i])) }
                              : i \in 1..Len(df) }),
        query, limit)

\* ------------------------------------------------------------- app.py

GenreWords == <<"action", "comedy", "horror", "drama", "thriller">>

\* app.py, line 41.
IsGenreQuery(movie_name) ==
    \/ StartsWith(Lower(movie_name), "genre:")
    \/ \E k \in 1..Len(GenreWords) : Contains(Lower(movie_name), GenreWords[k])

\* app.py, line 42.
GenreOf(movie_name) ==
    Strip(Replace(Replace(Lower(movie_name), "movies", ""), "genre:", ""))

TopRatedWords == {"top 10 rated movies", "top", "best", "high rating"}

\* app.py, line 46.
IsTopRatedQuery(movie_name) == Lower(movie_name) \in TopRatedWords

\* app.py, line 29.
TopSuggestionWords ==
    {"top", "best", "high", "rating", "high rating", "top 10 rated movies"}

\* app.py, lines 18 to 33.
SearchSuggestions(df, actors, arg) ==
    LET q == Strip(arg)
        top == IF Lower(q) \in TopSuggestionWords
               THEN <<"Top 10 Rated Movies">> ELSE <<>>
    IN IF q = "" THEN <<>>
       ELSE Take(search_titles(df, q, SearchLimit)
                     \o search_actors(actors, q, SearchLimit)
                     \o search_genres(df, q, SearchLimit)
                     \o top,
                 SuggestionCap)

\* app.py, lines 54 and 55: the rows whose title_norm the pattern finds.
PartialMask(df, movie_name) ==
    RowsWhere(df, LAMBDA r : RegexSearch(df[r + 1].title_norm, Lower(movie_name)))

\* app.py, lines 59 to 64: a row of the frame the partial search answers with.
PartialMapping(r) ==
    [title |-> r.title_x,
     rating |-> r.imdb_rating,
     actors |-> r.actors,
     genre |-> r.genres_pretty,
     release_date |-> r.release_date,
     story |-> r.story]

\* app.py, line 57, on a table: every rating coerced to a number.
CoerceRatings(t) == [k \in 1..Len(t) |-> [t[k] EXCEPT !.imdb_rating = ToNumeric(@)]]

\* app.py, line 58, on the coerced copy: the orders sort_values can give, cut
\* to the head.
RankedCopies(coerced) ==
    { [k \in 1..Len(o) |-> coerced[o[k]]] :
        o \in { Take(o, PartialHead) :
                  o \in SortOrders([k \in 1..Len(coerced) |-> k],
                                   LAMBDA k : coerced[k].imdb_rating) } }

\* app.py, lines 69 to 77: what the template is rendered with.
Rendered(movie_name, rec) ==
    [movie_name |-> movie_name,
     recommendations |-> rec,
     not_found |-> rec = <<>>]

\* ------------------------------------------------------------- the state

VARIABLES
    movies_df,       \* the loaded table (movies.py, module level)
    cosine_sim,      \* the similarity matrix
    idx_by_title,    \* the title series
    all_actors_list, \* the sorted actor names
    pc,              \* per request thread: where it is in its route
    movie_name,      \* per request thread: the form field, stripped
    rec_df,          \* per request thread: the frame to answer with
    filtered,        \* per request thread: the copy the partial search ranks
    tried,           \* per request thread: the stages run so far, with what each gave
    response,        \* per request thread: what the route returned
    call,            \* the direct caller: the function called and its arguments
    ret              \* the direct caller: what the call gave

shared == <<movies_df, cosine_sim, idx_by_title, all_actors_list>>

locals == <<pc, movie_name, rec_df, filtered, tried, response>>

direct == <<call, ret>>

vars == <<movies_df, cosine_sim, idx_by_title, all_actors_list,
          pc, movie_name, rec_df, filtered, tried, response, call, ret>>

\* The request threads of the Flask server.
Clients == {"t1", "t2"}

\* The texts the forms and the query strings of the model post.
Texts == {"Up", "u.", "(", "drama", "top", "meg", "zz", "genre:war"}

\* The arguments of the direct calls.
Queries == {"Up", " UP ", "up  2", "u.", "(", "p", "drama", "Meg", "zz", "", "nan"}

\* The greatest limit and top_n of the direct calls; the least is -1.
MaxLimit == 3

Limits == (0 - 1)..MaxLimit

NoCall == [op |-> "none", arg |-> "", n |-> 0]

NoReturn == [raised |-> FALSE, value |-> <<>>, picked |-> <<>>, idx |-> NoIndex]

NoResponse == [movie_name |-> "", recommendations |-> <<>>, not_found |-> FALSE]

Init ==
    /\ \E raw \in RawTables :
          /\ Loads(raw)
          /\ movies_df = LoadTable(raw)
    /\ cosine_sim = CosineMatrix(movies_df)
    /\ idx_by_title = TitleSeries(movies_df)
    /\ all_actors_list = ActorList(movies_df)
    /\ pc = [c \in Clients |-> "idle"]
    /\ movie_name = [c \in Clients |-> ""]
    /\ rec_df = [c \in Clients |-> <<>>]
    /\ filtered = [c \in Clients |-> <<>>]
    /\ tried = [c \in Clients |-> <<>>]
    /\ response = [c \in Clients |-> NoResponse]
    /\ call = NoCall
    /\ ret = NoReturn

Stage(name, result) == [stage |-> name, result |-> result]

\* ------------------------------------------------------ POST /recommend

\* app.py, lines 37 to 43: the text is taken for a genre.
GenreStage(c) ==
    /\ pc[c] = "idle"
    /\ \E text \in Texts :
          LET name == Strip(text)
              rec == get_movies_by_genre(movies_df, GenreOf(name), GenreLimit)
          IN /\ IsGenreQuery(name)
             /\ movie_name' = [movie_name EXCEPT ![c] = name]
             /\ rec_df' = [rec_df EXCEPT ![c] = rec]
             /\ tried' = [tried EXCEPT ![c] = <<Stage("genre", rec)>>]
    /\ pc' = [pc EXCEPT ![c] = "respond"]
    /\ UNCHANGED <<shared, filtered, response, direct>>

\* app.py, lines 46 and 47: the text asks for the top rated.
TopRatedStage(c) ==
    /\ pc[c] = "idle"
    /\ \E text \in Texts :
          LET name == Strip(text) IN
          /\ ~IsGenreQuery(name)
          /\ IsTopRatedQuery(name)
          /\ \E rec \in get_top_rated_movies(movies_df, TopRatedLimit) :
                /\ movie_name' = [movie_name EXCEPT ![c] = name]
                /\ rec_df' = [rec_df EXCEPT ![c] = rec]
                /\ tried' = [tried EXCEPT ![c] = <<Stage("top_rated", rec)>>]
    /\ pc' = [pc EXCEPT ![c] = "respond"]
    /\ UNCHANGED <<shared, filtered, response, direct>>

\* app.py, lines 50 and 51: recommend by the exact title. An exception leaves
\* the route (Flask answers 500).
SimilarityStage(c) ==
    /\ pc[c] = "idle"
    /\ \E text \in Texts :
          LET name == Strip(text)
              got == recommend(movies_df, cosine_sim, idx_by_title, name, TopN)
              rec == got.frame
          IN /\ ~IsGenreQuery(name)
             /\ ~IsTopRatedQuery(name)
             /\ movie_name' = [movie_name EXCEPT ![c] = name]
             /\ IF got.raised
                THEN /\ pc' = [pc EXCEPT ![c] = Raised]
                     /\ tried' = [tried EXCEPT ![c] = <<Stage("similarity", <<>>)>>]
                     /\ UNCHANGED rec_df
                ELSE /\ pc' = [pc EXCEPT ![c] = IF rec = <<>> THEN "partial" ELSE "actor"]
                     /\ tried' = [tried EXCEPT ![c] = <<Stage("similarity", rec)>>]
                     /\ rec_df' = [rec_df EXCEPT ![c] = rec]
    /\ UNCHANGED <<shared, filtered, response, direct>>

\* app.py, lines 53 to 55: rec_df is empty; the rows whose title_norm the text,
\* taken as a regular expression, finds are copied.
PartialFilter(c) ==
    /\ pc[c] = "partial"
    /\ IF RegexError(Lower(movie_name[c]))
       THEN /\ pc' = [pc EXCEPT ![c] = Raised]
            /\ UNCHANGED <<filtered, tried>>
       ELSE LET mask == PartialMask(movies_df, movie_name[c])
                copy == [k \in 1..Len(mask) |-> movies_df[mask[k] + 1]]
            IN /\ filtered' = [filtered EXCEPT ![c] = copy]
               /\ IF copy = <<>>
                  THEN /\ pc' = [pc EXCEPT ![c] = "actor"]
                       /\ tried' = [tried EXCEPT ![c] = Append(@, Stage("partial", <<>>))]
                  ELSE /\ pc' = [pc EXCEPT ![c] = "rank"]
                       /\ UNCHANGED tried
    /\ UNCHANGED <<shared, movie_name, rec_df, response, direct>>

\* A ranking that coerces the ratings of the shared table, not of a copy.
PartialRankInPlace(c) ==
    /\ pc[c] = "rank"
    /\ \E ranked \in RankedCopies(CoerceRatings(filtered[c])) :
          LET rec == [k \in 1..Len(ranked) |-> PartialMapping(ranked[k])] IN
          /\ filtered' = [filtered EXCEPT ![c] = ranked]
          /\ rec_df' = [rec_df EXCEPT ![c] = rec]
          /\ tried' = [tried EXCEPT ![c] = Append(@, Stage("partial", rec))]
    /\ movies_df' = CoerceRatings(movies_df)
    /\ pc' = [pc EXCEPT ![c] = "actor"]
    /\ UNCHANGED <<cosine_sim, idx_by_title, all_actors_list, movie_name, response, direct>>

\* app.py, lines 56 to 64: the copy is not empty; its ratings are coerced, it is
\* sorted by them and cut to its head, and rec_df is made of it.
PartialRank(c) ==
    /\ pc[c] = "rank"
    /\ \E ranked \in RankedCopies(CoerceRatings(filtered[c])) :
          LET rec == [k \in 1..Len(ranked) |-> PartialMapping(ranked[k])] IN
          /\ filtered' = [filtered EXCEPT ![c] = ranked]
          /\ rec_df' = [rec_df EXCEPT ![c] = rec]
          /\ tried' = [tried EXCEPT ![c] = Append(@, Stage("partial", rec))]
    /\ pc' = [pc EXCEPT ![c] = "actor"]
    /\ UNCHANGED <<shared, movie_name, response, direct>>

\* An actor stage that does not test rec_df.empty.
ActorStageAlways(c) ==
    /\ pc[c] = "actor"
    /\ LET rec == get_movies_by_actor(movies_df, movie_name[c]) IN
       /\ rec_df' = [rec_df EXCEPT ![c] = rec]
       /\ tried' = [tried EXCEPT ![c] = Append(@, Stage("actor", rec))]
    /\ pc' = [pc EXCEPT ![c] = "respond"]
    /\ UNCHANGED <<shared, movie_name, filtered, response, direct>>

\* app.py, lines 66 and 67.
ActorStage(c) ==
    /\ pc[c] = "actor"
    /\ IF rec_df[c] = <<>>
       THEN LET rec == get_movies_by_actor(movies_df, movie_name[c]) IN
            /\ rec_df' = [rec_df EXCEPT ![c] = rec]
            /\ tried' = [tried EXCEPT ![c] = Append(@, Stage("actor", rec))]
       ELSE UNCHANGED <<rec_df, tried>>
    /\ pc' = [pc EXCEPT ![c] = "respond"]
    /\ UNCHANGED <<shared, movie_name, filtered, response, direct>>

\* app.py, lines 69 to 77.
Respond(c) ==
    /\ pc[c] = "respond"
    /\ response' = [response EXCEPT ![c] = Rendered(movie_name[c], rec_df[c])]
    /\ pc' = [pc EXCEPT ![c] = "done"]
    /\ UNCHANGED <<shared, movie_name, rec_df, filtered, tried, direct>>

\* The request is over, answered or failed: the thread takes the next one, and
\* nothing of the request is kept.
Finish(c) ==
    /\ pc[c] \in {"done", Raised}
    /\ pc' = [pc EXCEPT ![c] = "idle"]
    /\ movie_name' = [movie_name EXCEPT ![c] = ""]
    /\ rec_df' = [rec_df EXCEPT ![c] = <<>>]
    /\ filtered' = [filtered EXCEPT ![c] = <<>>]
    /\ tried' = [tried EXCEPT ![c] = <<>>]
    /\ response' = [response EXCEPT ![c] = NoResponse]
    /\ UNCHANGED <<shared, direct>>

\* -------------------------------------------------------- GET /search

\* app.py, lines 18 to 33.
Search(c) ==
    /\ pc[c] = "idle"
    /\ \E text \in Texts :
          /\ movie_name' = [movie_name EXCEPT ![c] = Strip(text)]
          /\ response' = [response EXCEPT ![c] =
                 [movie_name |-> Strip(text),
                  recommendations |-> SearchSuggestions(movies_df, all_actors_list, text),
                  not_found |-> FALSE]]
          /\ tried' = [tried EXCEPT ![c] = <<Stage("search", <<>>)>>]
    /\ pc' = [pc EXCEPT ![c] = "done"]
    /\ UNCHANGED <<shared, rec_df, filtered, direct>>

Next ==
    \E c \in Clients :
        \/ GenreStage(c)
        \/ TopRatedStage(c)
        \/ SimilarityStage(c)
        \/ PartialFilter(c)
        \/ PartialRank(c)
        \/ ActorStage(c)
        \/ Respond(c)
        \/ Finish(c)
        \/ Search(c)

Spec == Init /\ [][Next]_vars

\* ------------------------------------------------------- direct calls

CallSearchTitles ==
    /\ call = NoCall
    /\ \E q \in Queries, limit \in Limits :
          /\ call' = [op |-> "search_titles", arg |-> q, n |-> limit]
          /\ ret' = [NoReturn EXCEPT !.value = search_titles(movies_df, q, limit)]
    /\ UNCHANGED <<shared, locals>>

CallSearchActors ==
    /\ call = NoCall
    /\ \E q \in Queries, limit \in Limits :
          /\ call' = [op |-> "search_actors", arg |-> q, n |-> limit]
          /\ ret' = [NoReturn EXCEPT !.value = search_actors(all_actors_list, q, limit)]
    /\ UNCHANGED <<shared, locals>>

\* recommend, with the row it resolved the title to and the rows it picked.
CallRecommend ==
    /\ call = NoCall
    /\ \E q \in Queries, top_n \in Limits :
          LET idx == best_match_index(idx_by_title, q)
              got == recommend(movies_df, cosine_sim, idx_by_title, q, top_n)
          IN
          /\ call' = [op |-> "recommend", arg |-> q, n |-> top_n]
          /\ ret' = [raised |-> got.raised,
                     value |-> got.frame,
                     picked |-> IF idx.tag = "int"
                                THEN Picked(cosine_sim, idx.row, top_n) ELSE <<>>,
                     idx |-> idx]
    /\ UNCHANGED <<shared, locals>>

CallGetMoviesByActor ==
    /\ call = NoCall
    /\ \E q \in Queries :
          /\ call' = [op |-> "get_movies_by_actor", arg |-> q, n |-> 0]
          /\ ret' = [NoReturn EXCEPT !.value = get_movies_by_actor(movies_df, q)]
    /\ UNCHANGED <<shared, locals>>

\* The caller is done with what the call gave.
Return ==
    /\ call # NoCall
    /\ call' = NoCall
    /\ ret' = NoReturn
    /\ UNCHANGED <<shared, locals>>

NextApi ==
    \/ CallSearchTitles
    \/ CallSearchActors
    \/ CallRecommend
    \/ CallGetMoviesByActor
    \/ Return

SpecApi == Init /\ [][NextApi]_vars

\* ================================================================ claims

\* ---- the direct calls (SpecApi)

IsRecommendCall == call.op = "recommend"

\* The rows of the table whose title_norm is the normalized text.
RowsTitled(text) ==
    { r \in Rows(movies_df) : movies_df[r + 1].title_norm = normalize_title(text) }

ScoreOf(idx, r) == cosine_sim[idx + 1][r + 1]

\* C2: for every resolved title and every top_n, recommend returns at most
\* top_n results, each two consecutive ones non-increasing in the score of the
\* title's row. It is stated for the top_n from 0 up: no list has fewer than 0
\* entries, so the negative top_n of the claim add nothing a program could meet.
C2_AtMostTopN ==
    (IsRecommendCall /\ ret.idx.tag = "int" /\ call.n >= 0) =>
        /\ Len(ret.value) <= call.n
        /\ \A k \in 1..(Len(ret.picked) - 1) :
              ScoreOf(ret.idx.row, ret.picked[k]) >= ScoreOf(ret.idx.row, ret.picked[k + 1])

\* C3: when several records share a title_norm, the title index holds the first
\* of them only, and recommend of that title resolves to it and returns without
\* raising.
C3_FirstSeenWins ==
    (IsRecommendCall /\ Cardinality(RowsTitled(call.arg)) >= 2) =>
        /\ Len(SeriesAt(idx_by_title, normalize_title(call.arg))) = 1
        /\ ~ret.raised
        /\ ret.idx.tag = "int"
        /\ \A r \in RowsTitled(call.arg) : ret.idx.row <= r

\* The display titles of the records whose title_norm holds q as a literal
\* substring, in catalog order.
TitlesHolding(q) ==
    LET rows == SelectSeq([i \in 1..Len(movies_df) |-> i],
                          LAMBDA i : Contains(movies_df[i].title_norm, q))
    IN [k \in 1..Len(rows) |-> movies_df[rows[k]].title_x]

SearchTitlesAsClaimed ==
    LET q == normalize_title(call.arg) IN
    /\ q = "" => ret.value = <<>>
    /\ q # "" => ret.value = Take(TitlesHolding(q), IF call.n > 0 THEN call.n ELSE 0)
    /\ Len(ret.value) <= call.n

\* C9 as stated: for every query and every limit, search_titles gives nothing
\* for an empty normalized query, and otherwise the titles of the first limit
\* records whose title_norm holds the normalized query literally; never more
\* than limit entries.
C9_SearchTitlesEveryLimit ==
    call.op = "search_titles" => SearchTitlesAsClaimed

\* C9, amended: the same, for every limit of 0 or more.
C9_SearchTitles ==
    (call.op = "search_titles" /\ call.n >= 0) => SearchTitlesAsClaimed

\* C9 happens: more records hold the query than the limit lets through, and
\* the query holds a character that a pattern would read as "any".
C9_Witness ==
    /\ call.op = "search_titles"
    /\ call.n >= 1
    /\ Len(TitlesHolding(normalize_title(call.arg))) > call.n
    /\ Len(ret.value) = call.n

C9_WitnessLiteral ==
    /\ call.op = "search_titles"
    /\ call.arg = "u."
    /\ call.n >= 1
    /\ ret.value = <<>>
    /\ \E r \in Rows(movies_df) : movies_df[r + 1].title_norm = "up"

\* The rows other than idx, by score from the greatest down, equal scores in
\* catalog order.
Ranking(idx) ==
    LET others == Rows(movies_df) \ {idx}
        Before(a, b) ==
            \/ ScoreOf(idx, a) > ScoreOf(idx, b)
            \/ ScoreOf(idx, a) = ScoreOf(idx, b) /\ a < b
    IN [k \in 1..Cardinality(others) |->
           CHOOSE a \in others : Cardinality({ b \in others : Before(b, a) }) = k - 1]

\* C10: recommend ranks the other records by their score, descending, equal
\* scores in catalog order, and returns the first top_n of that ranking.
C10_Ranking ==
    (IsRecommendCall /\ ret.idx.tag = "int") =>
        /\ ret.picked = Take(Ranking(ret.idx.row), IF call.n > 0 THEN call.n ELSE 0)
        /\ ret.value = ResultFrame(movies_df, ret.picked)

\* C10 for a top_n of 1 or more, where the loop of recommend does stop at top_n.
C10_RankingFromOne ==
    (IsRecommendCall /\ ret.idx.tag = "int" /\ call.n >= 1) =>
        /\ ret.picked = Take(Ranking(ret.idx.row), call.n)
        /\ ret.value = ResultFrame(movies_df, ret.picked)

\* ---- the routes (Spec)

\* C8: every record of the loaded table has the similarity 1 to itself.
C8_SelfSimilarityOne ==
    \A r \in Rows(movies_df) : cosine_sim[r + 1][r + 1] = One

StageOrder == <<"genre", "top_rated", "similarity", "partial", "actor">>

StagePos(name) == CHOOSE k \in 1..Len(StageOrder) : StageOrder[k] = name

IsRecommendRequest(c) == tried[c] # <<>> /\ tried[c][1].stage # "search"

\* What the stages tried gave: the result of the first that is not empty.
RECURSIVE FirstYield(_)
FirstYield(t) ==
    IF t = <<>> THEN <<>>
    ELSE IF Head(t).result # <<>> THEN Head(t).result
    ELSE FirstYield(Tail(t))

\* The ratings of a partial-search frame never rise, the NaN last.
RatingsDescend(frame) ==
    \A k \in 1..(Len(frame) - 1) :
        \/ frame[k + 1].rating = NaN
        \/ /\ frame[k].rating # NaN
           /\ Tenths(frame[k].rating) >= Tenths(frame[k + 1].rating)

\* C4: /recommend tries its stages in the order genre, top rated, exact title,
\* substring of the title (ranked by rating, descending), actor; a stage is
\* tried only when the one tried before it gave nothing, and the response
\* carries what the first stage that gave something gave.
C4_FallbackOrder ==
    \A c \in Clients :
        IsRecommendRequest(c) =>
            LET t == tried[c] IN
            /\ \A k \in 1..(Len(t) - 1) :
                  /\ StagePos(t[k].stage) < StagePos(t[k + 1].stage)
                  /\ t[k].result = <<>>
            /\ \A k \in 1..Len(t) :
                  /\ t[k].stage = "partial" =>
                        k = 2 /\ t[1].stage = "similarity" /\ RatingsDescend(t[k].result)
                  /\ t[k].stage = "actor" => k = 3 /\ t[2].stage = "partial"
            /\ pc[c] = "done" =>
                  /\ response[c].recommendations = FirstYield(t)
                  /\ response[c].not_found = (FirstYield(t) = <<>>)

\* C4 happens: a request went through exact title and substring, which gave
\* nothing, and was answered by the actor stage.
C4_Witness ==
    \E c \in Clients :
        /\ pc[c] = "done"
        /\ Len(tried[c]) = 3
        /\ tried[c][3].stage = "actor"
        /\ response[c].recommendations # <<>>

C4_WitnessPartial ==
    \E c \in Clients :
        /\ pc[c] = "done"
        /\ Len(tried[c]) = 2
        /\ Len(tried[c][2].result) >= 2
        /\ response[c].recommendations = tried[c][2].result

\* C5: not found is reported only for a text for which exact-title similarity,
\* substring title search and actor match each give nothing.
C5_NotFoundOnlyWhenAllFail ==
    \A c \in Clients :
        (IsRecommendRequest(c) /\ pc[c] = "done" /\ response[c].not_found) =>
            /\ recommend(movies_df, cosine_sim, idx_by_title, movie_name[c], TopN).frame = <<>>
            /\ TitlesHolding(Lower(movie_name[c])) = <<>>
            /\ get_movies_by_actor(movies_df, movie_name[c]) = <<>>

\* C6: no query ends in an exception.
C6_NoException ==
    /\ \A c \in Clients : pc[c] # Raised
    /\ ~ret.raised

\* What POST /recommend gives when it runs alone on the tables as they are: the
\* responses it can render, or the exception that leaves it.
RecommendMoviesAlone(text) ==
    LET name == Strip(text)
        got == recommend(movies_df, cosine_sim, idx_by_title, name, TopN)
        mask == PartialMask(movies_df, name)
        copy == [k \in 1..Len(mask) |-> movies_df[mask[k] + 1]]
    IN IF IsGenreQuery(name)
       THEN { Returns(Rendered(name, get_movies_by_genre(movies_df, GenreOf(name), GenreLimit))) }
       ELSE IF IsTopRatedQuery(name)
       THEN { Returns(Rendered(name, rec)) :
                rec \in get_top_rated_movies(movies_df, TopRatedLimit) }
       ELSE IF got.raised THEN { Raises }
       ELSE IF got.frame # <<>> THEN { Returns(Rendered(name, got.frame)) }
       ELSE IF RegexError(Lower(name)) THEN { Raises }
       ELSE IF copy # <<>>
       THEN { Returns(Rendered(name, [k \in 1..Len(ranked) |-> PartialMapping(ranked[k])])) :
                ranked \in RankedCopies(CoerceRatings(copy)) }
       ELSE { Returns(Rendered(name, get_movies_by_actor(movies_df, name))) }

SearchAlone(text) ==
    [movie_name |-> Strip(text),
     recommendations |-> SearchSuggestions(movies_df, all_actors_list, text),
     not_found |-> FALSE]

AnsweredAsAlone(c) ==
    /\ pc[c] = "done" =>
          IF IsRecommendRequest(c)
          THEN Returns(response[c]) \in RecommendMoviesAlone(movie_name[c])
          ELSE response[c] = SearchAlone(movie_name[c])
    /\ pc[c] = Raised => Raises \in RecommendMoviesAlone(movie_name[c])

\* C7: no query changes the table, the matrix, the title index or the actor
\* list, and under every interleaving of the request threads each query is
\* answered as it is when it runs alone.
C7_QueriesReadOnly ==
    /\ [][shared' = shared]_vars
    /\ [](\A c \in Clients : AnsweredAsAlone(c))

\* C7 happens: one thread has coerced and ranked its copy of a table that holds
\* a rating the coercion changes, while another thread has been answered.
C7_Witness ==
    \E c, d \in Clients :
        /\ c # d
        /\ pc[c] = "actor"
        /\ filtered[c] # <<>>
        /\ rec_df[c] # <<>>
        /\ CoerceRatings(movies_df) # movies_df
        /\ pc[d] = "done"
        /\ response[d].recommendations # <<>>

====
